---- MODULE Spec2Model ----
(***************************************************************************)
(* Codec combinators of @aws-accelerator/config/lib/common-types/types.ts: *)
(* CidrType, DefaultedType, OptionalType, SizedType, EnumType, the         *)
(* factories defaulted / optional / sized / enums and the exported enum    *)
(* codecs.  A codec is a record; validate, is and encode are operators     *)
(* over codec records and tagged JavaScript values.  Every operator that   *)
(* can call another function returns its outcome together with the log of  *)
(* the calls it made, so that "is never invoked" is a checkable fact.      *)
(***************************************************************************)
EXTENDS Integers, Sequences, FiniteSets, TLC

VARIABLES codec, u, c, pc, vres, isres, eres, rres

vars == <<codec, u, c, pc, vres, isres, eres, rres>>

\* Numbers of the model are -1 .. MaxN; the same range bounds min and max.
MaxN == 2

-----------------------------------------------------------------------------
(* JavaScript values, tagged by their runtime type *)

Undefined == [t |-> "undefined"]
Null == [t |-> "null"]
Num(n) == [t |-> "num", n |-> n]
Str(s) == [t |-> "str", s |-> s]
Bool(b) == [t |-> "bool", b |-> b]
Arr(items) == [t |-> "arr", items |-> items]
SetV(elems) == [t |-> "set", elems |-> elems]
MapV(entries) == [t |-> "map", entries |-> entries]
IPv4CidrRange(addr, prefix) == [t |-> "cidr", addr |-> addr, prefix |-> prefix]

\* u == null (loose equality): true of null and undefined only
EqNull(v) == v.t \in {"null", "undefined"}

\* !v for an optional number (props.min, props.max)
Falsy(v) == v.t = "undefined" \/ (v.t = "num" /\ v.n = 0)

\* a ?? b
Coalesce(a, b) == IF EqNull(a) THEN b ELSE a

\* template-literal rendering of a number or a string
Render(v) == IF v.t = "num" THEN ToString(v.n) ELSE v.s

-----------------------------------------------------------------------------
(* io-ts results; an exception leaving a function is the outcome Throw *)

success(v) == [tag |-> "Right", right |-> v]
failure(v, ctx, message) ==
  [tag |-> "Left", left |-> <<[value |-> v, context |-> ctx, message |-> message]>>]
Throw(e) == [tag |-> "Throw", error |-> e]
Ok(v) == [tag |-> "Ok", value |-> v]
None == [tag |-> "None"]

\* an outcome and the calls made while producing it
Out(r, log) == [r |-> r, log |-> log]

-----------------------------------------------------------------------------
(* Codec constructors: a codec is the record of its constructor arguments *)

\* the io-ts primitives re-exported by the file
string == [k |-> "string", name |-> "string"]
number == [k |-> "number", name |-> "number"]
boolean == [k |-> "boolean", name |-> "boolean"]
unknown == [k |-> "unknown", name |-> "unknown"]
Array == [k |-> "Array", name |-> "UnknownArray"]

\* name is Undefined or a Str; the stored name is name ?? <generated>
CidrType(name) == [k |-> "cidr", name |-> Coalesce(name, Str("Cidr")).s]

DefaultedType(type, defaultValue, name) ==
  [k |-> "defaulted",
   name |-> Coalesce(name, Str("Default<" \o type.name \o ">")).s,
   type |-> type, defaultValue |-> defaultValue]

OptionalType(type, name) ==
  [k |-> "optional",
   name |-> Coalesce(name, Str("Optional<" \o type.name \o ">")).s,
   type |-> type]

SizedTypeProps(min, max, name, errorMessage) ==
  [min |-> min, max |-> max, name |-> name, errorMessage |-> errorMessage]

SizedType(type, props) ==
  [k |-> "sized",
   name |-> Coalesce(props.name, Str("Sized<" \o type.name \o ">")).s,
   type |-> type, props |-> props, min |-> props.min, max |-> props.max]

EnumTypeProps(name, errorMessage) == [name |-> name, errorMessage |-> errorMessage]

EnumType(values, props) ==
  [k |-> "enum", name |-> props.name, values |-> values,
   errorMessage |-> props.errorMessage]

defaulted(type, defaultValue) == DefaultedType(type, defaultValue, Undefined)
sized(type, props) == SizedType(type, props)
enums(name, values, errorMessage) == EnumType(values, EnumTypeProps(name, errorMessage))
optional(wrapped) == OptionalType(wrapped, Undefined)

-----------------------------------------------------------------------------
(* The exported codecs *)

nonEmptyString ==
  sized(string, SizedTypeProps(Num(1), Undefined, Undefined, Str("Value can not be empty.")))

cidr == CidrType(Undefined)

allowDeny ==
  enums("AllowDeny", <<Str("allow"), Str("deny")>>, Str("Value should be allow or deny"))

enableDisable ==
  enums("EnableDisable", <<Str("enable"), Str("disable")>>,
        Str("Value should be enable or disable"))

availabilityZone ==
  enums("AvailabilityZone",
        <<Str("a"), Str("b"), Str("c"), Str("d"), Str("e"), Str("f")>>, Undefined)

region ==
  enums("Region",
        <<Str("af-south-1"), Str("ap-east-1"), Str("ap-northeast-1"), Str("ap-northeast-2"),
          Str("ap-northeast-3"), Str("ap-south-1"), Str("ap-southeast-1"),
          Str("ap-southeast-2"), Str("ca-central-1"), Str("cn-north-1"),
          Str("cn-northwest-1"), Str("eu-central-1"), Str("eu-north-1"), Str("eu-south-1"),
          Str("eu-west-1"), Str("eu-west-2"), Str("eu-west-3"), Str("me-south-1"),
          Str("sa-east-1"), Str("us-east-1"), Str("us-east-2"), Str("us-gov-east-1"),
          Str("us-gov-west-1"), Str("us-west-1"), Str("us-west-2"), Str("us-iso-west-1"),
          Str("us-iso-east-1"), Str("us-isob-east-1")>>,
        Str("Value should be an AWS region."))

\* the seventh element of the list is the text that reads like an error
\* message; no errorMessage argument is passed
storageClass ==
  enums("storageClass",
        <<Str("DEEP_ARCHIVE"), Str("GLACIER"), Str("GLACIER_IR"), Str("STANDARD_IA"),
          Str("INTELLIGENT_TIERING"), Str("ONEZONE_IA"),
          Str("Value should be an AWS S3 Storage Class.")>>,
        Undefined)

-----------------------------------------------------------------------------
(* ip-num's IPv4CidrRange: toCidrString renders a range, fromCidr is its   *)
(* inverse on the ranges of the model and throws on every other text       *)

Octets == {<<10, 0, 0, 0>>, <<192, 168, 1, 0>>}
Prefixes == {0, 16, 24, 32}
CidrRanges == {IPv4CidrRange(a, p) : a \in Octets, p \in Prefixes}

toCidrString(r) ==
  ToString(r.addr[1]) \o "." \o ToString(r.addr[2]) \o "." \o ToString(r.addr[3])
    \o "." \o ToString(r.addr[4]) \o "/" \o ToString(r.prefix)

fromCidr(s) ==
  IF \E r \in CidrRanges : toCidrString(r) = s.s
  THEN Ok(CHOOSE r \in CidrRanges : toCidrString(r) = s.s)
  ELSE Throw(Str("Error"))

-----------------------------------------------------------------------------
(* Helpers of the operations *)

RECURSIVE join(_, _)
\* Array.prototype.join over an array of strings and numbers
join(values, sep) ==
  IF Len(values) = 0 THEN ""
  ELSE IF Len(values) = 1 THEN Render(values[1])
  ELSE Render(values[1]) \o sep \o join(Tail(values), sep)

getSize(withSize) ==
  IF withSize.t = "num" THEN Ok(withSize.n)
  ELSE IF withSize.t = "str" THEN Ok(Len(withSize.s))
  ELSE IF withSize.t = "arr" THEN Ok(Len(withSize.items))
  ELSE IF withSize.t = "set" THEN Ok(Cardinality(withSize.elems))
  ELSE IF withSize.t = "map" THEN Ok(Cardinality(DOMAIN withSize.entries))
  ELSE Throw(Str("Unsupported size value"))

\* validate of the io-ts primitives: a typeof test, failure without message
Primitive_is(k, v) ==
  CASE k = "string" -> v.t = "str"
    [] k = "number" -> v.t = "num"
    [] k = "boolean" -> v.t = "bool"
    [] k = "Array" -> v.t = "arr"
    [] k = "unknown" -> TRUE

Primitive_validate(k, v, ctx) ==
  IF Primitive_is(k, v) THEN success(v) ELSE failure(v, ctx, Undefined)

RECURSIVE validate(_, _, _)
RECURSIVE is(_, _)
RECURSIVE encode(_, _)

\* type.validate(v, ctx) called from a wrapper: the call, then what it does
CallValidate(type, v, ctx) ==
  LET o == validate(type, v, ctx)
  IN  Out(o.r, <<[fn |-> "validate", codec |-> type, arg |-> v]>> \o o.log)

\* type.encode(a)
CallEncode(type, a) ==
  LET o == encode(type, a)
  IN  Out(o.r, <<[fn |-> "encode", codec |-> type, arg |-> a]>> \o o.log)

-----------------------------------------------------------------------------
(* CidrType *)

CidrType_is(value) == value.t = "cidr"

\* CidrType.validate without the try/catch around the parser
CidrType_validate_uncaught(str, context) ==
  LET o == CallValidate(string, str, context)
  IN  IF o.r.tag # "Right" THEN o
      ELSE LET s == o.r.right
               parsed == fromCidr(s)
               log == Append(o.log, [fn |-> "fromCidr", arg |-> s])
           IN  IF parsed.tag = "Ok"
               THEN Out(success(parsed.value), log)
               ELSE Out(parsed, log)

CidrType_validate(str, context) ==
  LET o == CallValidate(string, str, context)
  IN  IF o.r.tag # "Right" THEN o
      ELSE LET s == o.r.right
               parsed == fromCidr(s)
               log == Append(o.log, [fn |-> "fromCidr", arg |-> s])
           IN  IF parsed.tag = "Ok"
               THEN Out(success(parsed.value), log)
               ELSE Out(failure(s, context,
                                Str("Value " \o Render(s) \o " should be a CIDR range.")),
                        log)

\* c => c.toCidrString(): a TypeError on anything that is not a range
CidrType_encode(a) ==
  IF a.t = "cidr" THEN Out(Ok(Str(toCidrString(a))), <<>>)
  ELSE Out(Throw(Str("TypeError")), <<>>)

-----------------------------------------------------------------------------
(* DefaultedType *)

DefaultedType_is(type, v) == is(type, v)

\* DefaultedType.validate testing !u in place of u == null
DefaultedType_validate_falsy(type, defaultValue, v, context) ==
  IF EqNull(v) \/ v \in {Num(0), Str(""), Bool(FALSE)}
  THEN Out(success(defaultValue), <<>>)
  ELSE CallValidate(type, v, context)

DefaultedType_validate(type, defaultValue, v, context) ==
  IF EqNull(v) THEN Out(success(defaultValue), <<>>)
  ELSE CallValidate(type, v, context)

DefaultedType_encode(type, a) == CallEncode(type, a)

-----------------------------------------------------------------------------
(* OptionalType *)

\* OptionalType.is handing every value, null and undefined included, to the inner is
OptionalType_is_inner(type, v) == is(type, v)

OptionalType_is(type, v) == IF EqNull(v) THEN TRUE ELSE is(type, v)

\* OptionalType.validate testing u === undefined and answering with u itself
OptionalType_validate_strict(type, v, context) ==
  IF v = Undefined THEN Out(success(v), <<>>)
  ELSE CallValidate(type, v, context)

OptionalType_validate(type, v, context) ==
  IF EqNull(v) THEN Out(success(Undefined), <<>>)
  ELSE CallValidate(type, v, context)

OptionalType_encode(type, a) == CallEncode(type, a)

-----------------------------------------------------------------------------
(* SizedType *)

SizedType_is(type, v) == is(type, v)

\* SizedType.validate answering an inner failure with its own size error
SizedType_validate_own(type, props, v, context) ==
  LET o == CallValidate(type, v, context)
      errorMessage == Coalesce(props.errorMessage, Str("Value should be of size"))
  IN  IF o.r.tag = "Throw" THEN o
      ELSE IF o.r.tag = "Left" THEN Out(failure(v, context, errorMessage), o.log)
      ELSE LET measured == getSize(o.r.right)
               log == Append(o.log, [fn |-> "getSize", arg |-> o.r.right])
           IN  IF measured.tag = "Throw" THEN Out(measured, log)
               ELSE Out(success(o.r.right), log)

SizedType_validate(type, props, v, context) ==
  LET o == CallValidate(type, v, context)
  IN  IF o.r.tag # "Right" THEN o
      ELSE LET s == o.r.right
               measured == getSize(s)
               log == Append(o.log, [fn |-> "getSize", arg |-> s])
           IN  IF measured.tag = "Throw" THEN Out(measured, log)
               ELSE LET size == measured.value
                        minValid == Falsy(props.min)
                                      \/ (~Falsy(props.min) /\ size >= props.min.n)
                        maxValid == Falsy(props.max)
                                      \/ (~Falsy(props.max) /\ size <= props.max.n)
                        errorMessage ==
                          Coalesce(props.errorMessage,
                                   Str("Value should be of size ["
                                         \o Render(Coalesce(props.min, Str("-inf")))
                                         \o ", "
                                         \o Render(Coalesce(props.max, Str("inf")))
                                         \o "]"))
                    IN  IF minValid /\ maxValid
                        THEN Out(success(s), log)
                        ELSE Out(failure(s, context, errorMessage), log)

SizedType_encode(type, a) == CallEncode(type, a)

-----------------------------------------------------------------------------
(* EnumType *)

\* EnumType.is comparing with == (a number equals the text that renders it)
EnumType_is_loose(values, v) ==
  \E i \in 1..Len(values) :
    \/ values[i] = v
    \/ v.t \in {"num", "str"} /\ Render(values[i]) = Render(v)

EnumType_is(values, v) == \E i \in 1..Len(values) : values[i] = v

EnumType_validate(values, errorMessage, v, context) ==
  IF EnumType_is(values, v)
  THEN Out(success(v), <<>>)
  ELSE Out(failure(v, context,
                   Coalesce(errorMessage,
                            Str("Value should be one of \""
                                  \o join(values, "\", \"") \o "\""))),
           <<>>)

\* t.identity
EnumType_encode(a) == Out(Ok(a), <<>>)

-----------------------------------------------------------------------------
(* Dispatch on the codec's class *)

validate(type, v, context) ==
  CASE type.k = "cidr" -> CidrType_validate(v, context)
    [] type.k = "defaulted" ->
         DefaultedType_validate(type.type, type.defaultValue, v, context)
    [] type.k = "optional" -> OptionalType_validate(type.type, v, context)
    [] type.k = "sized" -> SizedType_validate(type.type, type.props, v, context)
    [] type.k = "enum" -> EnumType_validate(type.values, type.errorMessage, v, context)
    [] OTHER -> Out(Primitive_validate(type.k, v, context), <<>>)

is(type, v) ==
  CASE type.k = "cidr" -> CidrType_is(v)
    [] type.k = "defaulted" -> DefaultedType_is(type.type, v)
    [] type.k = "optional" -> OptionalType_is(type.type, v)
    [] type.k = "sized" -> SizedType_is(type.type, v)
    [] type.k = "enum" -> EnumType_is(type.values, v)
    [] OTHER -> Primitive_is(type.k, v)

encode(type, a) ==
  CASE type.k = "cidr" -> CidrType_encode(a)
    [] type.k = "defaulted" -> DefaultedType_encode(type.type, a)
    [] type.k = "optional" -> OptionalType_encode(type.type, a)
    [] type.k = "sized" -> SizedType_encode(type.type, a)
    [] type.k = "enum" -> EnumType_encode(a)
    [] OTHER -> Out(Ok(a), <<>>)

-----------------------------------------------------------------------------
(* The inputs and codecs the operations are applied to *)

Numbers == {Num(n) : n \in -1..MaxN}

Texts ==
  {"", "a", "ab", "1", "10.0.0.0/16", "192.168.1.0/24", "10.0.0.0/33", "not-a-cidr",
   "allow", "deny", "maybe", "us-east-1", "STANDARD",
   "DEEP_ARCHIVE", "GLACIER", "GLACIER_IR", "STANDARD_IA", "INTELLIGENT_TIERING",
   "ONEZONE_IA", "Value should be an AWS S3 Storage Class."}

Values ==
  {Undefined, Null, Bool(TRUE), Bool(FALSE)}
    \cup Numbers
    \cup {Str(s) : s \in Texts}
    \cup {Arr(<<>>), Arr(<<Str("a")>>), Arr(<<Num(0), Str("a")>>)}
    \cup {SetV({}), SetV({Num(1), Str("1")})}
    \cup {MapV([x \in {} |-> x]), MapV([x \in {Str("k1")} |-> Str("v1")])}
    \cup {IPv4CidrRange(<<10, 0, 0, 0>>, 16)}

\* the validation contexts passed by the caller
Contexts ==
  {<<[key |-> "", name |-> "root"]>>,
   <<[key |-> "", name |-> "root"], [key |-> "cidrs", name |-> "Cidr"]>>}

SizeBounds == {Undefined} \cup Numbers

\* a codec whose validate throws on a value without a size, null included
unsized == sized(unknown, SizedTypeProps(Undefined, Undefined, Undefined, Undefined))

EnumCodecs ==
  {enums("E", vs, em) :
     vs \in {<<>>, <<Str("allow"), Str("deny")>>, <<Num(1), Str("2")>>, <<Str("1")>>},
     em \in {Undefined, Str("custom"), Str("")}}
    \cup {allowDeny, enableDisable, availabilityZone, region, storageClass}

SizedCodecs ==
  {sized(T, SizedTypeProps(mn, mx, Undefined, em)) :
     T \in {string, number, Array, unknown},
     mn \in SizeBounds, mx \in SizeBounds,
     em \in {Undefined, Str("Value can not be empty.")}}
    \cup {sized(T, SizedTypeProps(Num(1), Num(1), Undefined, Undefined)) :
            T \in {nonEmptyString, optional(string), defaulted(number, Num(MaxN)),
                   allowDeny, optional(nonEmptyString)}}

Defaults ==
  {Null, Str(""), Str("a"), Str("allow"), Str("10.0.0.0/16"), Num(0), Bool(FALSE),
   IPv4CidrRange(<<10, 0, 0, 0>>, 16)}

DefaultedCodecs ==
  {defaulted(T, d) :
     T \in {string, number, cidr, allowDeny, nonEmptyString, unsized}, d \in Defaults}

OptionalCodecs ==
  {optional(T) :
     T \in {string, number, boolean, Array, cidr, allowDeny, nonEmptyString, unsized,
            defaulted(string, Str("a")), defaulted(string, Num(0))}}

Codecs ==
  {string, number, boolean, unknown, Array, cidr}
    \cup EnumCodecs \cup SizedCodecs \cup DefaultedCodecs \cup OptionalCodecs

-----------------------------------------------------------------------------
(* The state machine: a caller holding a codec, an input and a context     *)
(* validates the input, tests the result with is, encodes it and validates *)
(* the encoding again; or encodes a value of the codec's type directly     *)

NoOut == Out(None, <<>>)

Init ==
  /\ codec \in Codecs
  /\ u \in Values
  /\ c \in Contexts
  /\ pc = "start"
  /\ vres = NoOut
  /\ isres = FALSE
  /\ eres = NoOut
  /\ rres = NoOut

\* codec.validate(u, c)
RunValidate ==
  /\ pc = "start"
  /\ vres' = validate(codec, u, c)
  /\ pc' = "validated"
  /\ UNCHANGED <<codec, u, c, isres, eres, rres>>

\* codec.is(a) on the value validate produced
RunIs ==
  /\ pc = "validated"
  /\ vres.r.tag = "Right"
  /\ isres' = is(codec, vres.r.right)
  /\ pc' = "checked"
  /\ UNCHANGED <<codec, u, c, vres, eres, rres>>

\* codec.encode(a) on the value validate produced
RunEncode ==
  /\ pc = "checked"
  /\ eres' = encode(codec, vres.r.right)
  /\ pc' = "encoded"
  /\ UNCHANGED <<codec, u, c, vres, isres, rres>>

\* codec.validate(codec.encode(a), c)
RunRevalidate ==
  /\ pc = "encoded"
  /\ eres.r.tag = "Ok"
  /\ rres' = validate(codec, eres.r.value, c)
  /\ pc' = "revalidated"
  /\ UNCHANGED <<codec, u, c, vres, isres, eres>>

\* codec.encode(u) for a value u of the codec's type
RunEncodeValue ==
  /\ pc = "start"
  /\ is(codec, u)
  /\ eres' = encode(codec, u)
  /\ pc' = "encodedValue"
  /\ UNCHANGED <<codec, u, c, vres, isres, rres>>

Next ==
  \/ RunValidate
  \/ RunIs
  \/ RunEncode
  \/ RunRevalidate
  \/ RunEncodeValue

Spec == Init /\ [][Next]_vars

-----------------------------------------------------------------------------
(* Properties *)

\* validate has run on (codec, u, c) and vres holds its outcome
Validated == pc \in {"validated", "checked", "encoded", "revalidated"}

\* C1: for sized(T, {min, max}) and an input on which T's validate succeeds
\* with a measurable value s, the sized validate succeeds with s exactly when
\* (min is unset or size(s) >= min) and (max is unset or size(s) <= max), for
\* every number min and max that is set, 0 and negative numbers included.
C1_SizedSucceedsIffWithinBounds ==
  (Validated /\ codec.k = "sized") =>
    LET inner == validate(codec.type, u, c).r
    IN  (inner.tag = "Right" /\ inner.right.t \in {"num", "str", "arr", "set", "map"}) =>
          LET s == inner.right
              size == CASE s.t = "num" -> s.n
                        [] s.t = "str" -> Len(s.s)
                        [] s.t = "arr" -> Len(s.items)
                        [] s.t = "set" -> Cardinality(s.elems)
                        [] s.t = "map" -> Cardinality(DOMAIN s.entries)
              min == codec.props.min
              max == codec.props.max
          IN  (vres.r = success(s))
                <=> /\ (min = Undefined \/ size >= min.n)
                    /\ (max = Undefined \/ size <= max.n)

\* C2: optional(T).encode(undefined) returns undefined without invoking T's
\* encode; encode of any other value v returns T.encode(v).
C2_OptionalEncodeAbsent ==
  (pc = "encodedValue" /\ codec.k = "optional") =>
    IF u = Undefined
    THEN /\ eres.r = Ok(Undefined)
         /\ \A i \in 1..Len(eres.log) : eres.log[i].fn # "encode"
    ELSE eres.r = encode(codec.type, u).r

\* C3: round trip.  For a wrapper W (defaulted, optional, sized) over an inner
\* codec that satisfies the law, when W.validate(x) succeeds with v then
\* W.encode(v) returns and W.validate of it succeeds with v.
C3_RoundTrip ==
  (pc \in {"encoded", "revalidated"} /\ codec.k \in {"defaulted", "optional", "sized"}) =>
    LET T == codec.type
        law == \A x \in Values :
                 LET r == validate(T, x, c).r
                 IN  r.tag = "Right" =>
                       LET e == encode(T, r.right).r
                       IN  /\ e.tag = "Ok"
                           /\ validate(T, e.value, c).r = success(r.right)
    IN  law => /\ eres.r.tag = "Ok"
               /\ pc = "revalidated" => rres.r = success(vres.r.right)

\* C4 as stated: for every codec of the file over an inner codec that
\* satisfies the invariant, a value produced by a successful validate
\* satisfies the codec's is, whatever the default of a defaulted codec is.
C4_IsHoldsAfterValidate ==
  (pc = "checked") =>
    LET inv == codec.k \in {"defaulted", "optional", "sized"} =>
                 \A x \in Values :
                   LET r == validate(codec.type, x, c).r
                   IN  r.tag = "Right" => is(codec.type, r.right)
    IN  inv => isres

\* C4 amended: the same, for a defaulted codec on absent input only when the
\* default is a value of the inner codec's type (the inner is accepts it).
C4_IsHoldsAfterValidateTypedDefault ==
  (pc = "checked") =>
    LET inv == codec.k \in {"defaulted", "optional", "sized"} =>
                 \A x \in Values :
                   LET r == validate(codec.type, x, c).r
                   IN  r.tag = "Right" => is(codec.type, r.right)
        typed == (codec.k = "defaulted" /\ u \in {Null, Undefined}) =>
                   is(codec.type, codec.defaultValue)
    IN  (inv /\ typed) => isres

C4_Witness ==
  /\ pc = "checked"
  /\ codec = defaulted(nonEmptyString, Str(""))
  /\ u = Null
  /\ isres

\* C5: defaulted(T, d).validate on null or undefined returns Success(d) and
\* makes no call to T's validate, also when T's validate would fail or throw
\* there; on every other input, falsy ones included, it returns T.validate(x, c).
C5_DefaultedValidate ==
  (Validated /\ codec.k = "defaulted") =>
    IF u \in {Null, Undefined}
    THEN /\ vres.r = success(codec.defaultValue)
         /\ \A i \in 1..Len(vres.log) : vres.log[i].fn # "validate"
    ELSE vres.r = validate(codec.type, u, c).r

C5_Witness ==
  /\ pc = "validated"
  /\ codec.k = "defaulted"
  /\ u = Null
  /\ validate(codec.type, u, c).r.tag = "Throw"
  /\ vres.r = success(codec.defaultValue)

\* C6: optional(T).validate returns Success(undefined) on null and on
\* undefined alike, never null; on every other input, falsy ones included, it
\* returns T.validate(x, c).
C6_OptionalValidate ==
  (Validated /\ codec.k = "optional") =>
    IF u \in {Null, Undefined}
    THEN vres.r = success(Undefined)
    ELSE vres.r = validate(codec.type, u, c).r

C6_Witness ==
  /\ pc = "validated"
  /\ codec.k = "optional"
  /\ u = Null
  /\ validate(codec.type, u, c).r.tag = "Left"
  /\ vres.r = success(Undefined)

\* C7 as stated: enums(name, values, errorMessage).validate succeeds with u
\* unchanged exactly when u is strictly equal to an allowed value; otherwise
\* it fails with one error whose message is errorMessage when given, else
\* 'Value should be one of' followed by every allowed value, each in double
\* quotes, comma-separated, in declaration order; encode is the identity.
C7_EnumValidate ==
  (codec.k = "enum") =>
    LET member == \E i \in 1..Len(codec.values) :
                    codec.values[i].t = u.t /\ codec.values[i] = u
        quoted == [i \in 1..Len(codec.values) |->
                     Str("\"" \o Render(codec.values[i]) \o "\"")]
        generated == Str("Value should be one of " \o join(quoted, ", "))
        message == IF codec.errorMessage = Undefined THEN generated
                   ELSE codec.errorMessage
    IN  /\ Validated =>
             IF member THEN vres.r = success(u) ELSE vres.r = failure(u, c, message)
        /\ pc = "encodedValue" => eres.r = Ok(u)

\* C7 amended: the same for a non-empty list of allowed values; for an empty
\* list the generated message is 'Value should be one of ""'.
C7_EnumValidateNonEmpty ==
  (codec.k = "enum") =>
    LET member == \E i \in 1..Len(codec.values) :
                    codec.values[i].t = u.t /\ codec.values[i] = u
        quoted == [i \in 1..Len(codec.values) |->
                     Str("\"" \o Render(codec.values[i]) \o "\"")]
        generated == IF Len(codec.values) = 0 THEN Str("Value should be one of \"\"")
                     ELSE Str("Value should be one of " \o join(quoted, ", "))
        message == IF codec.errorMessage = Undefined THEN generated
                   ELSE codec.errorMessage
    IN  /\ Validated =>
             IF member THEN vres.r = success(u) ELSE vres.r = failure(u, c, message)
        /\ pc = "encodedValue" => eres.r = Ok(u)

C7_Witness ==
  /\ pc = "validated"
  /\ codec = enums("E", <<Num(1), Str("2")>>, Undefined)
  /\ u = Str("1")
  /\ vres.r = failure(u, c, Str("Value should be one of \"1\", \"2\""))

\* C8: for a wrapper W (defaulted, optional, sized) and a present input on
\* which T's validate fails, W.validate returns T's failure itself, and the
\* wrapper makes no call besides the one to T's validate (no size is taken).
C8_FailurePropagation ==
  (Validated /\ codec.k \in {"defaulted", "optional", "sized"}
     /\ u \notin {Null, Undefined}) =>
    LET inner == validate(codec.type, u, c)
    IN  inner.r.tag = "Left" =>
          /\ vres.r = inner.r
          /\ vres.log = <<[fn |-> "validate", codec |-> codec.type, arg |-> u]>> \o inner.log

C8_Witness ==
  /\ pc = "validated"
  /\ codec.k = "sized"
  /\ codec.type = nonEmptyString
  /\ u = Str("")
  /\ vres.r = failure(u, c, Str("Value can not be empty."))

\* C9: CidrType.validate never throws; on a non-text input it returns the
\* text codec's failure and the parser is not called; on a text the parser
\* throws on it returns one error with value s, the caller's context and
\* message 'Value {s} should be a CIDR range.'; on a text the parser accepts
\* it returns Success of the parsed range.
C9_CidrValidate ==
  (Validated /\ codec.k = "cidr") =>
    /\ vres.r.tag \in {"Right", "Left"}
    /\ u.t # "str" =>
         /\ vres.r = validate(string, u, c).r
         /\ vres.r.tag = "Left"
         /\ \A i \in 1..Len(vres.log) : vres.log[i].fn # "fromCidr"
    /\ (u.t = "str" /\ fromCidr(u).tag = "Throw") =>
         vres.r = failure(u, c, Str("Value " \o u.s \o " should be a CIDR range."))
    /\ (u.t = "str" /\ fromCidr(u).tag = "Ok") =>
         vres.r = success(fromCidr(u).value)

C9_Witness ==
  /\ pc = "validated"
  /\ codec = cidr
  /\ u = Str("10.0.0.0/33")
  /\ vres.r = failure(u, c, Str("Value 10.0.0.0/33 should be a CIDR range."))

\* C10: storageClass accepts a text exactly when it is one of the six S3
\* storage class names and rejects every other input with the message
\* 'Value should be an AWS S3 Storage Class.'
C10_StorageClass ==
  (Validated /\ codec = storageClass) =>
    IF u \in {Str("DEEP_ARCHIVE"), Str("GLACIER"), Str("GLACIER_IR"), Str("STANDARD_IA"),
              Str("INTELLIGENT_TIERING"), Str("ONEZONE_IA")}
    THEN vres.r = success(u)
    ELSE vres.r = failure(u, c, Str("Value should be an AWS S3 Storage Class."))

====
